---- MODULE Spec2Model ----
(***************************************************************************)
(* Model of the SSE session registry and message dispatcher of the SEI MCP *)
(* HTTP server (src/server/http-server.ts).                                *)
(*                                                                         *)
(* Strings are sequences of one-character strings, so that the session ids *)
(* built by generateSessionId and the ids sent by clients compare.         *)
(***************************************************************************)
EXTENDS Integers, Sequences, FiniteSets, TLC

\* ---------------------------------------------------------------- bounds
\* Number of /sse requests that get past the server check in one run.
MaxConns == 2

\* Largest generator state the random source is started from or set to.
MaxSeed == 17

\* ---------------------------------------------------------------- values
\* req.query.sessionId of a request that carries no such parameter.
Undefined == <<"undefined">>

\* JavaScript truthiness of `sessionId` (undefined and "" are falsy).
Falsy(s) == s = Undefined \/ s = <<>>

\* Session ids that clients put in the query string.
ClientIds == { <<"a", "b", "c">> }

\* digits of Number.prototype.toString(16)
HexChars ==
  <<"0", "1", "2", "3", "4", "5", "6", "7", "8", "9", "a", "b", "c", "d", "e", "f">>

Repeat(ch, n) == [i \in 1..n |-> ch]

\* 'xxxxxxxx-xxxx-4xxx-yxxx-xxxxxxxxxxxx'
Template ==
  Repeat("x", 8) \o <<"-">> \o Repeat("x", 4) \o <<"-", "4">> \o Repeat("x", 3)
    \o <<"-", "y">> \o Repeat("x", 3) \o <<"-">> \o Repeat("x", 12)

\* Number of [xy] matches in the first i characters of the template: the
\* replace callback runs once per match, left to right.
DrawIndex(i) == Cardinality({j \in 1..i : Template[j] \in {"x", "y"}})

NumDraws == DrawIndex(Len(Template))

\* Math.random is a generator whose state advances with every draw: the
\* n-th call of generateSessionId sees the n-th window of NumDraws values of
\* `Math.random() * 16 | 0`.
\* States n and n + 16 give windows that differ only in the two high bits of
\* the draw used for the 'y' character.
YDraw == DrawIndex(CHOOSE i \in 1..Len(Template) : Template[i] = "y")

BaseDraw(n, k) == (n + k * (2 * n + 1)) % 16

RandomStream(n) ==
  [k \in 1..NumDraws |->
     IF k = YDraw THEN (BaseDraw(n % 16, k) + 4 * (n \div 16)) % 16
     ELSE BaseDraw(n % 16, k)]

\* (a generator that masks every character the way 'y' is masked)
generateSessionIdMasked(rnd) ==
  [i \in 1..Len(Template) |->
     LET c == Template[i]
         r == rnd[DrawIndex(i)]
         v == (r % 4) + 8
     IN  IF c \in {"x", "y"} THEN HexChars[v + 1] ELSE c]

\* (a generator that does not mask the 'y' character)
generateSessionIdUnmasked(rnd) ==
  [i \in 1..Len(Template) |->
     LET c == Template[i]
         r == rnd[DrawIndex(i)]
     IN  IF c \in {"x", "y"} THEN HexChars[r + 1] ELSE c]

\* function generateSessionId(): rnd[k] is the k-th value of r.
\* For r in 0..15, (r & 0x3 | 0x8) is (r % 4) + 8.
generateSessionId(rnd) ==
  [i \in 1..Len(Template) |->
     LET c == Template[i]
         r == rnd[DrawIndex(i)]
         v == IF c = "x" THEN r ELSE (r % 4) + 8
     IN  IF c \in {"x", "y"} THEN HexChars[v + 1] ELSE c]

\* The id returned by the n-th call of generateSessionId (n from 0).
GeneratedId ==
  [n \in 0..(MaxSeed + MaxConns) |-> generateSessionId(RandomStream(n))]

\* ---------------------------------------------------------------- state
VARIABLES
  server,       \* TRUE once startServer() has resolved (server !== null)
  connections,  \* the Map<string, SSEServerTransport>: set of [id, transport]
  conn,         \* per /sse request past the server check: closure and stream
  rng,          \* state of the Math.random generator (window of the next call)
  last          \* the operation that ran last and the response it produced

vars == <<server, connections, conn, rng, last>>

Conns == 1..MaxConns

\* Map operations on `connections`
MapHas(m, k) == \E e \in m : e.id = k

MapGet(m, k) == IF MapHas(m, k) THEN (CHOOSE e \in m : e.id = k).transport ELSE 0

\* (a set that appends without replacing the entry stored under k)
MapSetKeep(m, k, t) == m \cup {[id |-> k, transport |-> t]}

\* (a set under which the first entry stored under k stays)
MapSetFirst(m, k, t) ==
  IF \E e \in m : e.id = k THEN m ELSE m \cup {[id |-> k, transport |-> t]}

MapSet(m, k, t) == {e \in m : e.id # k} \cup {[id |-> k, transport |-> t]}

MapDelete(m, k) == {e \in m : e.id # k}

MapSize(m) == Cardinality(m)

MapKeys(m) == {e.id : e \in m}

\* Array.from(connections.keys())[0], used only when the size is 1
FirstKey(m) == CHOOSE k \in MapKeys(m) : TRUE

\* ------------------------------------------------- JavaScript/JSON values
\* A value of a request body, of a backend result or of a response body:
\* its type t, its number n (number, bigint), its text s (string) and its
\* members kids (object: named; array: in order, names empty).
JV(t, n, s, kids) == [t |-> t, n |-> n, s |-> s, kids |-> kids]

\* undefined: also a member that is absent from a body
JUndefined == JV("undefined", 0, "", <<>>)
JNull == JV("null", 0, "", <<>>)
JNum(n) == JV("number", n, "", <<>>)
JBig(n) == JV("bigint", n, "", <<>>)
JStr(s) == JV("string", 0, s, <<>>)
Member(k, v) == [k |-> k, v |-> v]
JObj(members) == JV("object", 0, "", members)
JArr(elems) == JV("array", 0, "", [i \in DOMAIN elems |-> Member("", elems[i])])

\* obj.key
Get(obj, key) ==
  IF \E i \in DOMAIN obj.kids : obj.kids[i].k = key
  THEN obj.kids[CHOOSE i \in DOMAIN obj.kids : obj.kids[i].k = key].v
  ELSE JUndefined

Nullish(v) == v.t \in {"undefined", "null"}

\* !v is false
Truthy(v) ==
  CASE v.t \in {"undefined", "null"} -> FALSE
    [] v.t \in {"number", "bigint"} -> v.n # 0
    [] v.t = "string" -> v.s # ""
    [] OTHER -> TRUE

\* v || w
Or(v, w) == IF Truthy(v) THEN v ELSE w

DecimalDigits == <<"0", "1", "2", "3", "4", "5", "6", "7", "8", "9">>

RECURSIVE ToDecimal(_)
\* BigInt.prototype.toString() of a non-negative value
ToDecimal(n) ==
  IF n < 10 THEN DecimalDigits[n + 1]
  ELSE ToDecimal(n \div 10) \o DecimalDigits[(n % 10) + 1]

\* v?.toString() of an optional bigint
OptToString(v) == IF Nullish(v) THEN JUndefined ELSE JStr(ToDecimal(v.n))

\* Number(v) of a bigint or number below 2^53 (above, the value is rounded)
NumberOf(v) == JNum(v.n)

\* new Date(Number(seconds) * 1000).toISOString()
IsoDate(v) == JStr("date:" \o ToDecimal(v.n))

RECURSIVE ReplaceBigInts(_)
\* JSON.parse(JSON.stringify(v, (key, value) =>
\*   typeof value === 'bigint' ? value.toString() : value))
ReplaceBigInts(v) ==
  CASE v.t = "bigint" -> JStr(ToDecimal(v.n))
    [] v.t = "object" ->
         LET kept == SelectSeq(v.kids, LAMBDA m : m.v.t # "undefined")
         IN  JObj([i \in DOMAIN kept |->
                     Member(kept[i].k, ReplaceBigInts(kept[i].v))])
    [] v.t = "array" ->
         JArr([i \in DOMAIN v.kids |->
                 IF v.kids[i].v.t = "undefined" THEN JNull
                 ELSE ReplaceBigInts(v.kids[i].v)])
    [] OTHER -> v

RECURSIVE HasBigInt(_)
\* JSON.stringify(v) without replacer throws a TypeError on a bigint
HasBigInt(v) ==
  \/ v.t = "bigint"
  \/ \E i \in DOMAIN v.kids : HasBigInt(v.kids[i].v)

\* ------------------------------------------------------ POST /api/mcp
\* The outcome of the backend services of one call: the awaited service
\* call rejects (throws) or resolves to value; receipt likewise for the
\* second service call of get_transaction.
Outcome(throws, value) == [throws |-> throws, value |-> value]

Services(main, receipt) == [main |-> main, receipt |-> receipt]

\* The response body and what the handler did: HTTP status, the body's
\* jsonrpc and id members (JUndefined: res.json leaves the member out), its
\* result or error member, and the backend operations invoked.
Reply(status, kind, rid, code, message, result, called) ==
  [status |-> status, kind |-> kind, jsonrpc |-> JStr("2.0"), id |-> rid,
   code |-> code, message |-> message, result |-> result, called |-> called]

ErrorReply(status, rid, code, message, called) ==
  Reply(status, "error", rid, code, message, JUndefined, called)

ResultReply(rid, result, called) ==
  Reply(200, "result", rid, 0, "", result, called)

\* What the switch statement leaves: a result, or a thrown error.
Ran(thrown, message, result, called) ==
  [thrown |-> thrown, message |-> message, result |-> result,
   called |-> called]

IsMethod(method, name) == method.t = "string" /\ method.s = name

\* the case labels of the switch of src/server/http-server.ts
KnownMethods ==
  {"get_balance", "get_transaction", "get_transaction_receipt",
   "get_latest_block", "get_block_by_number", "get_chain_info",
   "get_supported_networks", "estimate_gas", "get_erc20_balance",
   "get_erc20_token_info", "get_erc721_token_metadata",
   "get_erc1155_token_uri", "check_nft_ownership", "get_nft_balance",
   "get_erc1155_balance", "is_contract", "read_contract"}

\* src/server/http-server.ts: every case awaits one backend service with
\* members of params (get_supported_networks reads none) and keeps what it
\* resolves to; default throws.
SwitchA(method, params, svc) ==
  IF method.t = "string" /\ method.s \in KnownMethods
  THEN IF method.s # "get_supported_networks" /\ Nullish(params)
       THEN Ran(TRUE, "TypeError", JUndefined, <<>>)
       ELSE IF svc.main.throws
       THEN Ran(TRUE, "backend failed", JUndefined, <<method.s>>)
       ELSE Ran(FALSE, "", svc.main.value, <<method.s>>)
  ELSE Ran(TRUE, "Unknown method", JUndefined, <<>>)

\* app.post("/api/mcp") of src/server/http-server.ts
ApiMcpA(initialized, body, svc) ==
  IF ~initialized
  THEN ErrorReply(503, Get(body, "id"), -32002, "Server not initialized", <<>>)
  ELSE LET method == Get(body, "method")
           params == Get(body, "params")
           id == Get(body, "id")
           ran == SwitchA(method, params, svc)
       IN  IF ran.thrown
           THEN ErrorReply(200, Get(body, "id"), -32603, ran.message,
                           ran.called)
           ELSE ResultReply(id, ReplaceBigInts(ran.result), ran.called)

Failed(what, called) ==
  Ran(FALSE, "",
      JObj(<<Member("error", JStr(what)), Member("message", JStr("cause"))>>),
      called)

\* case 'get_latest_block' of the second variant
LatestBlockB(params, svc) ==
  IF Nullish(params)
  THEN Failed("Failed to fetch latest block", <<>>)
  ELSE IF svc.main.throws
  THEN Failed("Failed to fetch latest block", <<"get_latest_block">>)
  ELSE LET block == svc.main.value
       IN  Ran(FALSE, "",
               JObj(<<
                 Member("number", NumberOf(Get(block, "number"))),
                 Member("hash", Get(block, "hash")),
                 Member("timestamp", IsoDate(Get(block, "timestamp"))),
                 Member("transactions",
                        Or(Get(block, "transactions"), JArr(<<>>))),
                 Member("gasUsed",
                        Or(OptToString(Get(block, "gasUsed")), JStr("0"))),
                 Member("gasLimit",
                        Or(OptToString(Get(block, "gasLimit")), JStr("0"))),
                 Member("network", Or(Get(params, "network"), JStr("sei")))
               >>),
               <<"get_latest_block">>)

\* case 'get_transaction' of the second variant
TransactionB(params, svc) ==
  IF Nullish(params)
  THEN Failed("Failed to fetch transaction", <<>>)
  ELSE IF ~Truthy(Get(params, "hash"))
  THEN Ran(FALSE, "",
           JObj(<<Member("error", JStr("Transaction hash is required"))>>),
           <<>>)
  ELSE IF svc.main.throws
  THEN Failed("Failed to fetch transaction", <<"get_transaction">>)
  ELSE LET tx == svc.main.value
           receipt == IF svc.receipt.throws THEN JUndefined
                      ELSE svc.receipt.value
           receiptGas == IF Nullish(receipt) THEN JUndefined
                         ELSE OptToString(Get(receipt, "gasUsed"))
           status == Get(receipt, "status")
       IN  Ran(FALSE, "",
               JObj(<<
                 Member("hash", Get(tx, "hash")),
                 Member("from", Get(tx, "from")),
                 Member("to", Get(tx, "to")),
                 Member("value",
                        Or(OptToString(Get(tx, "value")), JStr("0"))),
                 Member("gasUsed",
                        Or(Or(receiptGas, OptToString(Get(tx, "gas"))),
                           JStr("0"))),
                 Member("gasPrice",
                        Or(OptToString(Get(tx, "gasPrice")), JStr("0"))),
                 Member("blockNumber",
                        NumberOf(Or(Get(tx, "blockNumber"), JNum(0)))),
                 Member("timestamp", JStr("date:now")),
                 Member("status",
                        IF IsMethod(status, "success") THEN JStr("success")
                        ELSE JStr("failed")),
                 Member("network", Or(Get(params, "network"), JStr("sei")))
               >>),
               <<"get_transaction", "get_transaction_receipt">>)

\* the switch of the second variant
SwitchB(method, params, svc) ==
  CASE IsMethod(method, "get_supported_networks") ->
         Ran(FALSE, "", JArr(<<JStr("evm"), JStr("native")>>), <<>>)
    [] IsMethod(method, "get_balance") ->
         Ran(FALSE, "",
             JObj(<<Member("amount", JStr("0")), Member("denom", JStr("sei")),
                    Member("formatted", JStr("0 SEI"))>>),
             <<>>)
    [] IsMethod(method, "get_latest_block") -> LatestBlockB(params, svc)
    [] IsMethod(method, "get_transaction") -> TransactionB(params, svc)
    [] OTHER ->
         Ran(FALSE, "",
             JObj(<<Member("message", JStr("not yet implemented"))>>), <<>>)

\* app.post("/api/mcp") of the second variant
ApiMcpB(initialized, body, svc) ==
  LET jsonrpc == Get(body, "jsonrpc")
      id == Get(body, "id")
      method == Get(body, "method")
      params == Get(body, "params")
      ran == SwitchB(method, params, svc)
  IN  IF ~initialized
      THEN ErrorReply(503, Or(Get(body, "id"), JNull), -32000,
                      "Server not initialized", <<>>)
      ELSE IF ~(jsonrpc.t = "string" /\ jsonrpc.s = "2.0")
      THEN ErrorReply(400, Or(id, JNull), -32600,
                      "Invalid JSON-RPC version", <<>>)
      ELSE IF ~Truthy(method)
      THEN ErrorReply(400, Or(id, JNull), -32600, "Missing method", <<>>)
      ELSE IF HasBigInt(ran.result)
      THEN ErrorReply(500, Or(Get(body, "id"), JNull), -32603,
                      "Internal error", ran.called)
      ELSE ResultReply(id, ran.result, ran.called)

NoReply == Reply(0, "none", JUndefined, 0, "", JUndefined, <<>>)

\* The last direct call: the variant serving it, its body, the backend's
\* outcome and the reply.
Call(variant, body, svc, reply) ==
  [variant |-> variant, body |-> body, svc |-> svc, reply |-> reply]

NoCall ==
  Call("", JObj(<<>>),
       Services(Outcome(FALSE, JUndefined), Outcome(FALSE, JUndefined)),
       NoReply)

\* ------------------------------------------------------ streams
\* seed: the generator state the id was drawn from, -1 for a client's id
NoConn == [sid |-> Undefined, attach |-> "none", listener |-> FALSE,
           closed |-> FALSE, writes |-> 0, seed |-> -1]

Response(op, q, status, target, c, gen) ==
  [op |-> op, q |-> q, status |-> status, target |-> target, conn |-> c,
   generated |-> gen, api |-> NoCall]

Init ==
  /\ server = FALSE
  /\ connections = {}
  /\ conn = [c \in Conns |-> NoConn]
  /\ rng = 0
  /\ last = Response("init", Undefined, 0, 0, 0, FALSE)

\* startServer().then(s => { server = s })
StartServerThen ==
  /\ ~server
  /\ server' = TRUE
  /\ last' = Response("start", Undefined, 0, 0, 0, FALSE)
  /\ UNCHANGED <<connections, conn, rng>>

FreeConns == {c \in Conns : conn[c].attach = "none"}

\* (a stream on which session_init is written before the attach)
StreamAnnounced(sessionId, attach, listener) ==
  [sid |-> sessionId, attach |-> attach, listener |-> listener,
   closed |-> FALSE, writes |-> 1, seed |-> -1]

\* The closure of a /sse request: listener says whether the close
\* listener got registered; nothing has been written to res yet.
Stream(sessionId, attach, listener) ==
  [sid |-> sessionId, attach |-> attach, listener |-> listener,
   closed |-> FALSE, writes |-> 0, seed |-> -1]

\* app.get("/sse") while server is null: 503 and return
SseReject(q) ==
  /\ last' = Response("sse", q, 503, 0, 0, FALSE)
  /\ UNCHANGED <<server, connections, conn, rng>>

\* app.get("/sse") past the server check: the session id, then the try
\* block. outcome is what the transport constructor and server.connect do
\* synchronously: "ctorThrow", "connectThrow" or "pending".
SseAccept(q, outcome) ==
  /\ FreeConns # {}
  /\ LET c == CHOOSE x \in FreeConns : \A y \in FreeConns : x <= y
         gen == Falsy(q)
         sessionId == IF gen THEN GeneratedId[rng] ELSE q
         stored == MapSet(connections, sessionId, c)
         seed == IF gen THEN rng ELSE -1
     IN  /\ rng' = IF gen THEN rng + 1 ELSE rng
         /\ CASE outcome = "ctorThrow" ->
                   /\ connections' = MapDelete(connections, sessionId)
                   /\ conn' = [conn EXCEPT ![c] =
                        [Stream(sessionId, "failed", FALSE) EXCEPT !.seed = seed]]
                   /\ last' = Response("sse", q, 500, 0, c, gen)
              [] outcome = "connectThrow" ->
                   /\ connections' = MapDelete(stored, sessionId)
                   /\ conn' = [conn EXCEPT ![c] =
                        [Stream(sessionId, "failed", TRUE) EXCEPT !.seed = seed]]
                   /\ last' = Response("sse", q, 500, 0, c, gen)
              [] outcome = "pending" ->
                   /\ connections' = stored
                   /\ conn' = [conn EXCEPT ![c] =
                        [Stream(sessionId, "pending", TRUE) EXCEPT !.seed = seed]]
                   /\ last' = Response("sse", q, 200, 0, c, gen)
  /\ UNCHANGED server

\* (a /sse handler without the server check)
SseGetUnguarded(q, outcome) == SseAccept(q, outcome)

\* app.get("/sse"): q is req.query.sessionId
SseGet(q, outcome) ==
  IF ~server THEN SseReject(q) ELSE SseAccept(q, outcome)

\* (a close listener that forgets the registry)
ReqCloseKeep(c) ==
  /\ conn[c].listener
  /\ ~conn[c].closed
  /\ conn' = [conn EXCEPT ![c].closed = TRUE]
  /\ last' = Response("close", Undefined, 0, 0, c, FALSE)
  /\ UNCHANGED <<server, connections, rng>>

\* (a close listener that removes the entry only if it is its own)
ReqCloseOwn(c) ==
  /\ conn[c].listener
  /\ ~conn[c].closed
  /\ connections' = connections \ {[id |-> conn[c].sid, transport |-> c]}
  /\ conn' = [conn EXCEPT ![c].closed = TRUE]
  /\ last' = Response("close", Undefined, 0, 0, c, FALSE)
  /\ UNCHANGED <<server, rng>>

\* (a close listener that removes the entry only once the attach is done)
ReqCloseAttached(c) ==
  /\ conn[c].listener
  /\ ~conn[c].closed
  /\ connections' = IF conn[c].attach = "ok"
                    THEN MapDelete(connections, conn[c].sid) ELSE connections
  /\ conn' = [conn EXCEPT ![c].closed = TRUE]
  /\ last' = Response("close", Undefined, 0, 0, c, FALSE)
  /\ UNCHANGED <<server, rng>>

\* req.on("close", ...) of connection c
ReqClose(c) ==
  /\ conn[c].listener
  /\ ~conn[c].closed
  /\ connections' = MapDelete(connections, conn[c].sid)
  /\ conn' = [conn EXCEPT ![c].closed = TRUE]
  /\ last' = Response("close", Undefined, 0, 0, c, FALSE)
  /\ UNCHANGED <<server, rng>>

\* server.connect(transport).then(...): res.write of the session_init event
ConnectThen(c) ==
  /\ conn[c].attach = "pending"
  /\ conn' = [conn EXCEPT ![c].attach = "ok", ![c].writes = @ + 1]
  /\ last' = Response("then", Undefined, 0, 0, c, FALSE)
  /\ UNCHANGED <<server, connections, rng>>

\* (a catch callback that only logs)
ConnectCatchKeep(c) ==
  /\ conn[c].attach = "pending"
  /\ conn' = [conn EXCEPT ![c].attach = "failed"]
  /\ last' = Response("catch", Undefined, 0, 0, c, FALSE)
  /\ UNCHANGED <<server, connections, rng>>

\* server.connect(transport).catch(...)
ConnectCatch(c) ==
  /\ conn[c].attach = "pending"
  /\ connections' = MapDelete(connections, conn[c].sid)
  /\ conn' = [conn EXCEPT ![c].attach = "failed"]
  /\ last' = Response("catch", Undefined, 0, 0, c, FALSE)
  /\ UNCHANGED <<server, rng>>

\* (a fallback that ignores whether an id was supplied)
ResolveSessionIdAlways(q) ==
  IF MapSize(connections) = 1 THEN FirstKey(connections) ELSE q

\* app.post("/messages"), first lines: the id the dispatch goes on with
ResolveSessionId(q) ==
  IF Falsy(q) /\ MapSize(connections) = 1 THEN FirstKey(connections) ELSE q

\* (a dispatcher that tests the session before the server)
MessagesPostLateCheck(q, outcome) ==
  LET sessionId == ResolveSessionId(q)
      transport == MapGet(connections, sessionId)
  IN  /\ last' =
           IF Falsy(sessionId) THEN Response("messages", q, 400, 0, 0, FALSE)
           ELSE IF transport = 0 THEN Response("messages", q, 404, 0, 0, FALSE)
           ELSE IF ~server THEN Response("messages", q, 503, 0, 0, FALSE)
           ELSE Response("messages", q, IF outcome = "ok" THEN 202 ELSE 500,
                         transport, 0, FALSE)
      /\ UNCHANGED <<server, connections, conn, rng>>

\* (a dispatcher that drops the session when its handler fails)
MessagesPostDropOnError(q, outcome) ==
  LET sessionId == ResolveSessionId(q)
      transport == MapGet(connections, sessionId)
      forwarded == server /\ ~Falsy(sessionId) /\ transport # 0
  IN  /\ last' =
           IF ~server THEN Response("messages", q, 503, 0, 0, FALSE)
           ELSE IF Falsy(sessionId) THEN Response("messages", q, 400, 0, 0, FALSE)
           ELSE IF transport = 0 THEN Response("messages", q, 404, 0, 0, FALSE)
           ELSE Response("messages", q, IF outcome = "ok" THEN 202 ELSE 500,
                         transport, 0, FALSE)
      /\ connections' = IF forwarded /\ outcome # "ok"
                        THEN MapDelete(connections, sessionId) ELSE connections
      /\ UNCHANGED <<server, conn, rng>>

\* app.post("/messages"): q is req.query.sessionId, outcome what
\* transport.handlePostMessage does ("ok", "throw" or "reject").
MessagesPost(q, outcome) ==
  LET sessionId == ResolveSessionId(q)
      transport == MapGet(connections, sessionId)
  IN  /\ last' =
           IF ~server THEN Response("messages", q, 503, 0, 0, FALSE)
           ELSE IF Falsy(sessionId) THEN Response("messages", q, 400, 0, 0, FALSE)
           ELSE IF transport = 0 THEN Response("messages", q, 404, 0, 0, FALSE)
           ELSE Response("messages", q, IF outcome = "ok" THEN 202 ELSE 500,
                         transport, 0, FALSE)
      /\ UNCHANGED <<server, connections, conn, rng>>

\* What a client can send as sessionId: nothing, an empty value, an id of
\* its own choice, or the id of a stream opened before.
QueryIds ==
  {Undefined, <<>>} \cup ClientIds \cup {conn[c].sid : c \in Conns \ FreeConns}

Next ==
  \/ StartServerThen
  \/ \E q \in QueryIds : SseGet(q, "pending")
  \/ \E c \in Conns : ReqClose(c)
  \/ \E c \in Conns : ConnectThen(c)
  \/ \E c \in Conns : ConnectCatch(c)
  \/ \E q \in QueryIds, outcome \in {"ok", "throw", "reject"} : MessagesPost(q, outcome)

Spec == Init /\ [][Next]_vars

\* The same server when no client opens a stream with a session id that an
\* earlier stream was opened with.
UnusedQueryIds == {q \in QueryIds : \A c \in Conns \ FreeConns : conn[c].sid # q}

NextDistinct ==
  \/ StartServerThen
  \/ \E q \in UnusedQueryIds : SseGet(q, "pending")
  \/ \E c \in Conns : ReqClose(c)
  \/ \E c \in Conns : ConnectThen(c)
  \/ \E c \in Conns : ConnectCatch(c)
  \/ \E q \in QueryIds, outcome \in {"ok", "throw", "reject"} : MessagesPost(q, outcome)

SpecDistinct == Init /\ [][NextDistinct]_vars

\* The same server when the transport constructor or server.connect may
\* also throw synchronously inside the try block of app.get("/sse").
NextThrow ==
  \/ Next
  \/ \E q \in QueryIds, outcome \in {"ctorThrow", "connectThrow"} :
        server /\ SseGet(q, outcome)

SpecThrow == Init /\ [][NextThrow]_vars

\* The same server when every client disconnects in the end and the event
\* loop runs what is queued: the 'close' listener of every connection, and
\* the then or catch callback of every pending server.connect promise.
Fairness ==
  /\ \A c \in Conns : WF_vars(ReqClose(c))
  /\ \A c \in Conns : WF_vars(ConnectThen(c) \/ ConnectCatch(c))

SpecFair == Init /\ [][NextThrow]_vars /\ Fairness

\* Math.random is drawn from elsewhere too: the generator can be in any
\* state when generateSessionId runs, also one it was in before.
Reseed(n) ==
  /\ rng' = n
  /\ last' = Response("random", Undefined, 0, 0, 0, FALSE)
  /\ UNCHANGED <<server, connections, conn>>

NextRandom ==
  \/ StartServerThen
  \/ \E n \in 0..MaxSeed : Reseed(n)
  \/ \E q \in {Undefined, <<>>} : SseGet(q, "pending")

SpecRandom == Init /\ [][NextRandom]_vars

\* ------------------------------------------------------ direct calls
\* The bodies sent to /api/mcp: each member absent or one of a few values.
Versions == {JUndefined, JStr("2.0"), JStr("1.0")}

Ids == {JUndefined, JNum(0), JStr(""), JNum(7)}

Methods ==
  {JUndefined, JStr(""), JStr("bogus"), JStr("get_latest_block"),
   JStr("get_transaction"), JStr("get_supported_networks")}

ParamsOfCall == {JUndefined, JObj(<<>>)}

Body(jsonrpc, id, method, params) ==
  JObj(SelectSeq(<<Member("jsonrpc", jsonrpc), Member("id", id),
                   Member("method", method), Member("params", params)>>,
                 LAMBDA m : m.v.t # "undefined"))

WithHash == JObj(<<Member("hash", JStr("0xt"))>>)

\* every version, id and method with params that hold a hash, and every
\* params with a well-formed envelope
Bodies ==
  {Body(jsonrpc, id, method, WithHash) :
     jsonrpc \in Versions, id \in Ids, method \in Methods} \cup
  {Body(JStr("2.0"), JNum(7), method, params) :
     method \in Methods, params \in ParamsOfCall}

\* What the backend services resolve to: transactions, blocks (with the
\* hashes of their transactions or with the transactions), receipts.
Tx(value, blockNumber) ==
  JObj(<<Member("hash", JStr("0xt")), Member("from", JStr("0xf")),
         Member("to", JNull), Member("value", JBig(value)),
         Member("gas", JBig(21000)), Member("gasPrice", JBig(2)),
         Member("blockNumber", blockNumber)>>)

Txs == {Tx(5, blockNumber) : blockNumber \in {JNull, JBig(120)}}

Block(number, transactions) ==
  JObj(<<Member("number", JBig(number)), Member("hash", JStr("0xb")),
         Member("timestamp", JBig(1700)),
         Member("transactions", JArr(transactions)),
         Member("gasUsed", JBig(21000)), Member("gasLimit", JBig(30000)),
         Member("baseFeePerGas", JBig(1))>>)

Blocks ==
  {Block(number, transactions) :
     number \in {120},
     transactions \in {<<>>, <<JStr("0xt")>>, <<Tx(5, JBig(120))>>}}

Receipts ==
  {Outcome(TRUE, JUndefined)} \cup
  {Outcome(FALSE, JObj(<<Member("status", JStr(status)),
                         Member("gasUsed", JBig(20000))>>)) :
     status \in {"success", "reverted"}}

Rejects == Outcome(TRUE, JUndefined)

Idle == Outcome(FALSE, JUndefined)

\* The outcomes the backend can have when the body's method is served.
ServicesOf(body) ==
  LET method == Get(body, "method")
  IN  CASE IsMethod(method, "get_latest_block") ->
             {Services(Rejects, Idle)} \cup
             {Services(Outcome(FALSE, b), Idle) : b \in Blocks}
        [] IsMethod(method, "get_transaction") ->
             {Services(Rejects, Idle)} \cup
             {Services(Outcome(FALSE, t), r) : t \in Txs, r \in Receipts}
        [] IsMethod(method, "get_supported_networks") ->
             {Services(Rejects, Idle),
              Services(Outcome(FALSE, JArr(<<JStr("sei")>>)), Idle)}
        [] OTHER -> {Services(Idle, Idle)}

\* Both variants of the handler are served.
Variants == {"A", "B"}

\* (a handler that drops the registry when it answers with an error)
ApiMcpClearing(variant, body, svc) ==
  LET reply == IF variant = "A" THEN ApiMcpA(server, body, svc)
               ELSE ApiMcpB(server, body, svc)
  IN  /\ last' = [Response("api", Undefined, reply.status, 0, 0, FALSE)
                    EXCEPT !.api = Call(variant, body, svc, reply)]
      /\ connections' = IF reply.kind = "error" THEN {} ELSE connections
      /\ UNCHANGED <<server, conn, rng>>

\* POST /api/mcp
ApiMcp(variant, body, svc) ==
  LET reply == IF variant = "A" THEN ApiMcpA(server, body, svc)
               ELSE ApiMcpB(server, body, svc)
  IN  /\ last' = [Response("api", Undefined, reply.status, 0, 0, FALSE)
                    EXCEPT !.api = Call(variant, body, svc, reply)]
      /\ UNCHANGED <<server, connections, conn, rng>>

\* Direct calls alone.
NextCall ==
  \/ StartServerThen
  \/ \E variant \in Variants, body \in Bodies :
       \E svc \in ServicesOf(body) : ApiMcp(variant, body, svc)

SpecCall == Init /\ [][NextCall]_vars

\* One body per way a call can end, for the runs with streams.
SampleBodies ==
  {Body(jsonrpc, JNum(7), method, WithHash) :
     jsonrpc \in {JStr("2.0"), JStr("1.0")},
     method \in {JUndefined, JStr("bogus"), JStr("get_latest_block")}}

SampleServices(body) ==
  ServicesOf(body) \cap
    {Services(Idle, Idle), Services(Rejects, Idle),
     Services(Outcome(FALSE, Block(120, <<>>)), Idle),
     Services(Outcome(FALSE, Block(120, <<Tx(5, JBig(120))>>)), Idle)}

\* Direct calls between stream opens, closes and dispatches.
NextApi ==
  \/ Next
  \/ \E variant \in Variants, body \in SampleBodies :
       \E svc \in SampleServices(body) : ApiMcp(variant, body, svc)

SpecApi == Init /\ [][NextApi]_vars

TypeOK ==
  /\ server \in BOOLEAN
  /\ \A e \in connections : e.transport \in Conns
  /\ \A c \in Conns : conn[c].attach \in {"none", "pending", "ok", "failed"}
  /\ rng \in 0..(MaxSeed + MaxConns)

\* ---------------------------------------------------------------- claims
\* A persistent connection that was accepted, whose attach has not failed
\* and whose close event has not been processed.
IsOpen(c) == conn[c].attach \in {"pending", "ok"} /\ ~conn[c].closed

OpenConns == {c \in Conns : IsOpen(c)}

EntriesOf(c) == {e \in connections : e.transport = c}

\* C1: in every reachable state the registry holds exactly one entry per
\* currently-open persistent connection, so its size is the number of
\* currently-open persistent connections.
C1_OneEntryPerOpenConnection ==
  /\ \A c \in OpenConns : Cardinality(EntriesOf(c)) = 1
  /\ MapSize(connections) = Cardinality(OpenConns)

\* The step is the close handler of connection c.
IsCloseOf(c) == ~conn[c].closed /\ conn'[c].closed

C3_EntriesLiveAndUnique ==
  \A e \in connections :
    /\ \A f \in connections : f.id = e.id => f = e
    /\ e.transport \in Conns
    /\ conn[e.transport].sid = e.id
    /\ IsOpen(e.transport)

\* Two sessions are registered, one of them past its attach.
C3_Witness ==
  /\ MapSize(connections) = 2
  /\ \E e \in connections : conn[e.transport].attach = "ok"

\* C4: session_init is on a stream only if the attach of that stream has
\* succeeded: never while the attach is pending, never after it failed.
C4_AttachBeforeAnnounce ==
  \A c \in Conns : conn[c].writes > 0 => conn[c].attach = "ok"

\* session_init has been written to the stream that just attached.
C4_Witness == last.op = "then" /\ conn[last.conn].writes = 1

\* C5: once the close event of a connection has been processed, nothing
\* more is written to its stream.
C5_NoWriteAfterClose ==
  [][\A c \in Conns : conn[c].closed => conn'[c].writes = conn[c].writes]_vars

\* C6: a failed attach removes the connection's registry entry and is
\* terminal: the attach stays failed, no entry for the connection's stream
\* comes back and session_init is never written to it.
C6_AttachFailureTerminal ==
  [][\A c \in Conns :
       /\ (conn[c].attach # "failed" /\ conn'[c].attach = "failed") =>
            /\ ~MapHas(connections', conn'[c].sid)
            /\ EntriesOf(c)' = {}
            /\ conn'[c].writes = 0
       /\ conn[c].attach = "failed" =>
            /\ conn'[c].attach = "failed"
            /\ EntriesOf(c)' = {}
            /\ conn'[c].writes = 0]_vars

\* An attach has been rejected after another connection was accepted.
C6_Witness ==
  /\ last.op = "catch"
  /\ conn[last.conn].attach = "failed"
  /\ \E d \in Conns : d # last.conn /\ conn[d].attach # "none"

\* C7: a /sse request received while the backend is not initialized is
\* answered 503 and creates nothing: same registry, no generated id, no
\* transport, no close listener.
C7_RejectCreatesNoState ==
  [][(~server /\ last'.op = "sse") =>
       /\ last'.status = 503
       /\ ~last'.generated
       /\ last'.conn = 0
       /\ connections' = connections
       /\ conn' = conn]_vars

\* A /sse request has been rejected with 503.
C7_Witness == last.op = "sse" /\ last.status = 503 /\ ~server

\* The last operation was a dispatch on /messages with the backend up.
Dispatched == last.op = "messages" /\ server

\* C8: with the backend initialized, a message posted with sessionId = X
\* while a stream opened with id X is still open is forwarded (no 404) to
\* the handler of a stream opened with X.
C8_ExplicitIdReachesOpenStream ==
  (Dispatched /\ \E c \in OpenConns : conn[c].sid = last.q) =>
     /\ last.status # 404
     /\ last.target \in OpenConns
     /\ conn[last.target].sid = last.q

\* C9 (as claimed): a dispatch whose supplied session id is not a key of
\* the registry fails with SessionNotFound and invokes no handler.
C9_UnknownIdNotFound ==
  (last.op = "messages" /\ last.q # Undefined /\ ~MapHas(connections, last.q)) =>
     last.status = 404 /\ last.target = 0

\* C9 (amended): with the backend initialized, a dispatch whose supplied
\* session id is not empty and not a key of the registry fails with
\* SessionNotFound and invokes no handler, however many sessions exist.
C9_UnknownNonEmptyIdNotFound ==
  (Dispatched /\ ~Falsy(last.q) /\ ~MapHas(connections, last.q)) =>
     last.status = 404 /\ last.target = 0

\* An unknown id was answered 404 while exactly one session is registered.
C9_Witness ==
  /\ Dispatched
  /\ ~Falsy(last.q)
  /\ ~MapHas(connections, last.q)
  /\ MapSize(connections) = 1
  /\ last.status = 404

\* C10: with the backend initialized, a dispatch without session id while
\* exactly one persistent stream is open is routed to that stream.
C10_SingleOpenStreamFallback ==
  (Dispatched /\ last.q = Undefined /\ Cardinality(OpenConns) = 1) =>
     last.target \in OpenConns

\* C11: with the backend initialized, a dispatch without session id while
\* zero or at least two persistent streams are open fails with
\* AmbiguousOrMissingSession (400) and invokes no handler.
C11_NoIdAmbiguousOrMissing ==
  (Dispatched /\ last.q = Undefined /\ Cardinality(OpenConns) # 1) =>
     last.status = 400 /\ last.target = 0

\* C12: while the backend is not initialized every dispatch fails with
\* ServiceUnavailable (503), whatever the supplied id, and invokes no handler.
C12_UninitializedDispatchUnavailable ==
  (last.op = "messages" /\ ~server) => last.status = 503 /\ last.target = 0

\* Dispatches with and without a session id were answered 503.
C12_Witness ==
  /\ last.op = "messages"
  /\ ~server
  /\ ~Falsy(last.q)
  /\ last.status = 503

\* C13: a dispatch whose handler fails answers HandlerError (500) and leaves
\* the registry and the streams as they were; the next dispatch to the same
\* id reaches the same stream.
C13_HandlerErrorKeepsSession ==
  [][/\ (last'.op = "messages" /\ last'.status = 500) =>
          /\ connections' = connections
          /\ conn' = conn
          /\ last'.target # 0
          /\ \E e \in connections' : e.transport = last'.target
     /\ (/\ last.op = "messages" /\ last.status = 500
         /\ last'.op = "messages" /\ last'.q = last.q) =>
          last'.target = last.target]_vars

\* A handler failed while two sessions were registered.
C13_Witness ==
  /\ last.op = "messages"
  /\ last.status = 500
  /\ MapSize(connections) = 2
  /\ EntriesOf(last.target) # {}

\* The streams opened so far.
OpenedConns == Conns \ FreeConns

\* What an id keeps of the draws: the 'y' character keeps two bits of its.
Material(n) ==
  [k \in 1..NumDraws |->
     IF k = YDraw THEN RandomStream(n)[k] % 4 ELSE RandomStream(n)[k]]

\* Streams c and d are the only ones opened, both without a client id, and
\* both are still open.
TwoGenerated(c, d) ==
  /\ c # d
  /\ OpenedConns = {c, d}
  /\ IsOpen(c) /\ IsOpen(d)
  /\ conn[c].seed >= 0 /\ conn[d].seed >= 0

\* C14 (as claimed): two streams opened without a client-supplied id, both
\* still open, have two distinct ids and the registry size is 2.
C14_TwoGeneratedDistinct ==
  \A c, d \in Conns : TwoGenerated(c, d) =>
     conn[c].sid # conn[d].sid /\ MapSize(connections) = 2

\* C14 (amended): the two ids are distinct, and the registry size is 2,
\* exactly when the draws of the two generateSessionId calls differ in what
\* an id keeps of them; otherwise the ids are equal and the size is 1.
C14_DistinctIffDrawsDiffer ==
  \A c, d \in Conns : TwoGenerated(c, d) =>
     IF Material(conn[c].seed) # Material(conn[d].seed)
     THEN conn[c].sid # conn[d].sid /\ MapSize(connections) = 2
     ELSE conn[c].sid = conn[d].sid /\ MapSize(connections) = 1

\* Two streams got distinct generated ids from different draws.
C14_Witness ==
  \E c, d \in Conns :
    /\ TwoGenerated(c, d)
    /\ Material(conn[c].seed) # Material(conn[d].seed)
    /\ MapSize(connections) = 2

HexDigits ==
  {"0", "1", "2", "3", "4", "5", "6", "7", "8", "9", "a", "b", "c", "d", "e", "f"}

\* the 8-4-4-4-12 layout with version nibble 4 and variant nibble 8..b
WellFormedId(id) ==
  /\ Len(id) = 36
  /\ \A i \in 1..36 :
       IF i \in {9, 14, 19, 24} THEN id[i] = "-"
       ELSE IF i = 15 THEN id[i] = "4"
       ELSE IF i = 20 THEN id[i] \in {"8", "9", "a", "b"}
       ELSE id[i] \in HexDigits

\* C15: whatever the random source returns, a generated session id has the
\* 8-4-4-4-12 hex-hyphen layout, version nibble 4, variant nibble 8, 9, a
\* or b.
C15_GeneratedIdWellFormed ==
  \A c \in Conns : conn[c].seed >= 0 => WellFormedId(conn[c].sid)

\* An id was generated from draws of 15 and a 'y' draw above 11.
C15_Witness ==
  \E c \in Conns :
    /\ conn[c].seed >= 0
    /\ \E k \in 1..NumDraws : k # YDraw /\ RandomStream(conn[c].seed)[k] = 15
    /\ RandomStream(conn[c].seed)[YDraw] > 11

\* The last operation was a direct call: its body, the reply.
Called == last.op = "api"

CallBody == last.api.body

CallReply == last.api.reply

VersionOk(body) ==
  Get(body, "jsonrpc").t = "string" /\ Get(body, "jsonrpc").s = "2.0"

\* C16: with the backend initialized, a direct call whose jsonrpc member is
\* not exactly "2.0" (or is absent) is answered with the
\* InvalidProtocolVersion error and no backend operation is invoked,
\* whatever the method.
C16_InvalidVersionRejected ==
  (Called /\ server /\ ~VersionOk(CallBody)) =>
     /\ CallReply.kind = "error"
     /\ CallReply.message = "Invalid JSON-RPC version"
     /\ CallReply.called = <<>>

\* C17: with the backend initialized and a valid envelope, a direct call
\* whose method is not one of the named backend operations is answered with
\* an error member, not a result, and no backend operation is invoked.
C17_UnknownMethodIsError ==
  (/\ Called /\ server /\ VersionOk(CallBody)
   /\ Truthy(Get(CallBody, "method"))
   /\ Get(CallBody, "method").s \notin KnownMethods) =>
     CallReply.kind = "error" /\ CallReply.called = <<>>

\* C18: every response of a direct call has jsonrpc "2.0" and an id member
\* equal to the request's id, null when the request has none.
C18_ResponseCarriesId ==
  Called =>
     /\ CallReply.jsonrpc = JStr("2.0")
     /\ CallReply.id = IF Get(CallBody, "id").t = "undefined" THEN JNull
                       ELSE Get(CallBody, "id")

\* C19: a direct call leaves the registry and every stream as they are,
\* between any stream opens, closes and dispatches, and its reply is the
\* one the initialization flag, the body and the backend outcome determine.
C19_DirectCallLeavesRegistry ==
  [][last'.op = "api" =>
       /\ connections' = connections
       /\ conn' = conn
       /\ last'.api.reply =
            IF last'.api.variant = "A"
            THEN ApiMcpA(server, last'.api.body, last'.api.svc)
            ELSE ApiMcpB(server, last'.api.body, last'.api.svc)]_vars

\* A direct call was answered with an error, and one with a result, while
\* two entries were registered.
C19_Witness ==
  /\ Called /\ MapSize(connections) = 2
  /\ CallReply.kind = "error" /\ CallReply.called # <<>>

RECURSIVE Emitted(_, _)
\* Where the backend's value v has a bigint, the response value r, if it has
\* a value at that place, has the decimal string of it.
Emitted(v, r) ==
  CASE v.t = "bigint" -> r.t = "string" /\ r.s = ToDecimal(v.n)
    [] v.t = "object" ->
         \A i \in DOMAIN v.kids :
           LET rv == Get(r, v.kids[i].k)
           IN  rv.t = "undefined" \/ Emitted(v.kids[i].v, rv)
    [] v.t = "array" ->
         \A i \in DOMAIN v.kids :
           i \in DOMAIN r.kids => Emitted(v.kids[i].v, r.kids[i].v)
    [] OTHER -> TRUE

\* C20: in the result of a successful direct call every bigint of the
\* backend's value, at any depth, is a decimal string and not a number.
C20_BigIntsAsDecimalStrings ==
  (/\ Called /\ CallReply.kind = "result"
   /\ CallReply.called # <<>> /\ ~last.api.svc.main.throws) =>
     Emitted(last.api.svc.main.value, CallReply.result)

\* The connections that stored an entry under id k, in the order of their
\* opening (connections are numbered as they are accepted).
WritersOf(k) ==
  {c \in Conns : conn[c].attach # "none" /\ conn[c].listener /\ conn[c].sid = k}

\* The id was supplied by the client and is in the registry when the stream
\* is accepted.
IsReopenOf(k) ==
  /\ last'.op = "sse" /\ last'.q = k /\ ~Falsy(k)
  /\ MapHas(connections, k)
  /\ conn'[last'.conn].attach = "pending"

\* C21: a stream opened with a client-supplied id that is already in the
\* registry is accepted without error; the registry keeps a single entry
\* for the id, the new connection's; and a dispatch for an id that is
\* forwarded goes to the connection that stored its entry last.
C21_InsertOverwrites ==
  [][/\ \A k \in QueryIds : IsReopenOf(k) =>
          /\ last'.status = 200
          /\ Cardinality({e \in connections' : e.id = k}) = 1
          /\ MapGet(connections', k) = last'.conn
          /\ MapSize(connections') = MapSize(connections)
     /\ (last'.op = "messages" /\ ~Falsy(last'.q) /\ last'.target # 0) =>
          /\ last'.target \in WritersOf(last'.q)
          /\ \A c \in WritersOf(last'.q) : c <= last'.target]_vars

\* A message was forwarded to the second of two open streams that share a
\* client-supplied id.
C21_Witness ==
  /\ last.op = "messages" /\ last.target # 0
  /\ \E c \in WritersOf(last.q) : c < last.target /\ IsOpen(c)

\* C22: after the close event of a connection opened with id X the
\* registry has no entry for X: with the attach pending, completed or
\* failed, with the entry there or already gone, and with the entry stored
\* by this connection or by another one.
C22_CloseRemovesUnconditionally ==
  [][\A c \in Conns : IsCloseOf(c) =>
       /\ last'.op = "close"
       /\ \A e \in connections' : e.id # conn[c].sid]_vars

\* A close has removed the entry that another, still open connection stored
\* under the same id.
C22_Witness ==
  /\ last.op = "close"
  /\ \E d \in WritersOf(conn[last.conn].sid) :
       d > last.conn /\ IsOpen(d) /\ EntriesOf(d) = {}

\* C23: from the write of session_init to a connection until that
\* connection's close event, a lookup of its session id returns that
\* connection's stream.
C23_AnnouncedStaysAddressable ==
  \A c \in Conns :
    (conn[c].writes > 0 /\ ~conn[c].closed) =>
       MapGet(connections, conn[c].sid) = c

\* C24: a message is forwarded only to a stream whose attach has completed,
\* never to one whose attach is pending or has failed.
C24_ForwardOnlyToAttached ==
  (last.op = "messages" /\ last.target # 0) =>
     conn[last.target].attach = "ok"

\* The step is a failed accept of connection c: the try block threw or the
\* attach was rejected.
IsFailureOf(c) == conn[c].attach # "failed" /\ conn'[c].attach = "failed"

\* C25: a failed accept removes no entry of another connection that is
\* still open.
C25_FailureKeepsOthers ==
  [][\A c \in Conns : IsFailureOf(c) =>
       \A e \in connections \ connections' :
         e.transport = c \/ ~IsOpen(e.transport)]_vars

\* Every connection that was accepted has had its close event processed
\* and no attach is pending.
Quiescent ==
  \A c \in Conns :
    /\ conn[c].listener => conn[c].closed
    /\ conn[c].attach # "pending"

\* C26: whenever every accepted connection has had its close event
\* processed and every attach has resolved or rejected, the registry is
\* empty; and when close events are eventually processed the registry ends
\* up empty and stays empty.
C26_NoEntryLeaks ==
  /\ [](Quiescent => connections = {})
  /\ <>[](connections = {})

\* Every connection was accepted, one of them with an id another one had,
\* and all are closed.
C26_Witness ==
  /\ Quiescent /\ FreeConns = {}
  /\ \E c, d \in Conns : c # d /\ conn[c].sid = conn[d].sid /\ conn[c].listener

====
